---- MODULE Spec2Model ----
(***************************************************************************)
(* Rabin cryptosystem: key generation, encryption, four-root decryption    *)
(* (src/rabin/mod.rs) and the hash-and-resample signature scheme           *)
(* (src/rabin_digital_signature/mod.rs).                                   *)
(*                                                                         *)
(* The library is a set of functions; the state is the frame of the call   *)
(* in progress (pc, the arguments and the locals of its loop) and the      *)
(* arguments and result of the last call that returned (ret).  A behaviour *)
(* is one use of the library: a call with any arguments, which may be      *)
(* followed by the call that consumes its result (decrypt after encrypt,   *)
(* verify after sign).                                                     *)
(***************************************************************************)
EXTENDS Integers, Sequences, FiniteSets, TLC

VARIABLES pc, ret, bit_size, private_key, public_key, message, ciphertext,
          roots, u, c, signature, valid

vars == <<pc, ret, bit_size, private_key, public_key, message, ciphertext,
          roots, u, c, signature, valid>>

----------------------------------------------------------------------------
(* Bounds of the model *)

MaxBits == 4            \* bit_size arguments are 2..MaxBits
MaxKeyPart == 11        \* components of a caller-supplied private key are 3..MaxKeyPart
MaxMessage == 80        \* messages, ciphertexts and signature values r are 0..MaxMessage
MaxSignMessage == 7     \* messages that are signed or verified are 0..MaxSignMessage
MaxNonce == 7           \* nonces are 0..MaxNonce
HashSpace == 128        \* digests are 0..HashSpace-1

NoValue == -1
NoKey == <<0, 0>>
NoSignature == <<NoValue, NoValue>>
Panic == <<NoValue>>

BitSizes == 2..MaxBits
KeyArgs == (3..MaxKeyPart) \X (3..MaxKeyPart)
PublicKeys == {k[1] * k[2] : k \in KeyArgs}
Messages == 0..MaxMessage
SignMessages == 0..MaxSignMessage
Nonces == 0..MaxNonce

----------------------------------------------------------------------------
(* Arithmetic of the integer library, as the code uses it *)

\* BigInt `%`: the remainder truncates toward zero and takes the dividend's sign
Rem(a, b) == IF a >= 0 THEN a % b ELSE 0 - ((0 - a) % b)

\* modpow(base, exp, modulus)
RECURSIVE modpow(_, _, _)
modpow(b, e, m) == IF e = 0 THEN 1 % m ELSE (modpow(b, e - 1, m) * (b % m)) % m

\* the extended Euclidean algorithm: (g, x, y) with x*a + y*b = g = gcd(a, b)
RECURSIVE ExtendedEuclid(_, _)
ExtendedEuclid(a, b) ==
    IF a = 0 THEN <<b, 0, 1>>
    ELSE CHOOSE res \in {<<r[1], r[3] - (b \div a) * r[2], r[2]>> :
                             r \in {ExtendedEuclid(b % a, a)}} : TRUE

\* utils::egcd, tabulated over the key components
egcd == [a \in 0..MaxKeyPart, b \in 0..MaxKeyPart |-> ExtendedEuclid(a, b)]

IsPrime(x) == x >= 2 /\ \A d \in 2..(x - 1) : x % d # 0

\* rng.gen_prime(bit_size, config): some prime within the bit size limit
Primes(bits) == {x \in 2..(2 ^ bits - 1) : IsPrime(x)}

\* Sha256(message.to_bytes_be() || u) read as a big-endian integer
Hash(m, nonce) == ((m * (MaxNonce + 1) + nonce) * 47 + 17) % HashSpace

----------------------------------------------------------------------------
(* rabin::generate_keys *)

PRejected(p) == p % 4 # 3

QRejectedNoEq(p, q) == q % 4 # 3
QRejected(p, q) == q % 4 # 3 \/ p = q

----------------------------------------------------------------------------
(* rabin::encrypt, rabin::decrypt *)

encrypt(m, n) == modpow(m, 2, n)

SqrtExpHalf(p) == (p + 1) \div 2
\* (p + 1) >> 2
SqrtExp(p) == (p + 1) \div 4

NegateNoMod(r, n) == n - r
\* (&n - &r) % &n
Negate(r, n) == (n - r) % n

CrtSumSwapped(yp, p, mq, yq, q, mp, n) == (yp * p * mp + yq * q * mq) % n
\* r1 = (yp * p * mq + yq * q * mp) % n
CrtSum(yp, p, mq, yq, q, mp, n) == (yp * p * mq + yq * q * mp) % n

CrtDiffAsSum(yp, p, mq, yq, q, mp, n) == (yp * p * mq + yq * q * mp) % n
\* r3 = (((yp * p * mq - yq * q * mp) % n) + n) % n, in signed arithmetic
CrtDiff(yp, p, mq, yq, q, mp, n) ==
    Rem(Rem(yp * p * mq - yq * q * mp, n) + n, n)

decrypt(ct, key) ==
    LET p == key[1]
        q == key[2]
        n == p * q
        mp == modpow(ct, SqrtExp(p), p)
        mq == modpow(ct, SqrtExp(q), q)
        e == egcd[p, q]
        yp_norm == Rem(e[2] + n, n)
        yq_norm == Rem(e[3] + n, n)
    IN  IF yp_norm < 0 \/ yq_norm < 0
        THEN Panic      \* to_biguint().unwrap() of a negative value
        ELSE LET r1 == CrtSum(yp_norm, p, mq, yq_norm, q, mp, n)
                 r2 == Negate(r1, n)
                 r3 == CrtDiff(yp_norm, p, mq, yq_norm, q, mp, n)
                 r4 == Negate(r3, n)
             IN  <<r1, r2, r3, r4>>

----------------------------------------------------------------------------
(* rabin_digital_signature::sign, verify *)

InRange(h, n) == h < n

AcceptsAlways(r1, n, h) == TRUE
\* encrypt(&r1, &n) == c
Accepts(r1, n, h) == encrypt(r1, n) = h

\* if &c < &n { r1 = decrypt(&c, private_key)[0]; if encrypt(&r1, &n) == c {..} }
Accepted(h, n, decrypted_messages) ==
    /\ InRange(h, n)
    /\ decrypted_messages # Panic
    /\ Accepts(decrypted_messages[1], n, h)

verifyReduced(m, sig, n) == encrypt(sig[1], n) = Hash(m, sig[2]) % n
verify(m, sig, n) == encrypt(sig[1], n) = Hash(m, sig[2])

----------------------------------------------------------------------------
(* The state machine *)

Init ==
    /\ pc = "idle"
    /\ ret = "none"
    /\ bit_size = 0
    /\ private_key = NoKey
    /\ public_key = 0
    /\ message = NoValue
    /\ ciphertext = NoValue
    /\ roots = <<>>
    /\ u = NoValue
    /\ c = NoValue
    /\ signature = NoSignature
    /\ valid = FALSE

\* generate_keys(bit_size) is called and draws p and q
generate_keys(bits) ==
    /\ \E p \in Primes(bits), q \in Primes(bits) : private_key' = <<p, q>>
    /\ pc' = "while_p"
    /\ ret' = "none"
    /\ bit_size' = bits
    /\ public_key' = 0
    /\ message' = NoValue
    /\ ciphertext' = NoValue
    /\ roots' = <<>>
    /\ u' = NoValue
    /\ c' = NoValue
    /\ signature' = NoSignature
    /\ valid' = FALSE

\* while &p % &four != three { p = rng.gen_prime(..) }: one pass
RedrawP ==
    /\ pc = "while_p"
    /\ PRejected(private_key[1])
    /\ \E p \in Primes(bit_size) : private_key' = <<p, private_key[2]>>
    /\ UNCHANGED <<pc, ret, bit_size, public_key, message, ciphertext, roots,
                   u, c, signature, valid>>

\* the first loop ends
AcceptP ==
    /\ pc = "while_p"
    /\ ~PRejected(private_key[1])
    /\ pc' = "while_q"
    /\ UNCHANGED <<ret, bit_size, private_key, public_key, message, ciphertext,
                   roots, u, c, signature, valid>>

\* while &q % &four != three || p == q { q = rng.gen_prime(..) }: one pass
RedrawQ ==
    /\ pc = "while_q"
    /\ QRejected(private_key[1], private_key[2])
    /\ \E q \in Primes(bit_size) : private_key' = <<private_key[1], q>>
    /\ UNCHANGED <<pc, ret, bit_size, public_key, message, ciphertext, roots,
                   u, c, signature, valid>>

\* the second loop ends; n = p * q; return ((p, q), n)
ReturnKeys ==
    /\ pc = "while_q"
    /\ ~QRejected(private_key[1], private_key[2])
    /\ public_key' = private_key[1] * private_key[2]
    /\ pc' = "idle"
    /\ ret' = "generate_keys"
    /\ UNCHANGED <<bit_size, private_key, message, ciphertext, roots, u, c,
                   signature, valid>>

\* encrypt(message, n)
Encrypt(m, n) ==
    /\ message' = m
    /\ public_key' = n
    /\ ciphertext' = encrypt(m, n)
    /\ ret' = "encrypt"
    /\ private_key' = NoKey
    /\ bit_size' = 0
    /\ roots' = <<>>
    /\ u' = NoValue
    /\ c' = NoValue
    /\ signature' = NoSignature
    /\ valid' = FALSE
    /\ pc' = "idle"

\* decrypt(ciphertext, private_key)
Decrypt(ct, key) ==
    /\ UNCHANGED <<message, public_key>>
    /\ ciphertext' = ct
    /\ private_key' = key
    /\ roots' = decrypt(ct, key)
    /\ ret' = "decrypt"
    /\ bit_size' = 0
    /\ u' = NoValue
    /\ c' = NoValue
    /\ signature' = NoSignature
    /\ valid' = FALSE
    /\ pc' = "idle"

\* sign(message, private_key) is called and enters its loop
Sign(m, key) ==
    /\ pc' = "loop"
    /\ ret' = "none"
    /\ message' = m
    /\ private_key' = key
    /\ public_key' = 0
    /\ bit_size' = 0
    /\ ciphertext' = NoValue
    /\ roots' = <<>>
    /\ u' = NoValue
    /\ c' = NoValue
    /\ signature' = NoSignature
    /\ valid' = FALSE

\* one pass of the loop body up to the test of r1: draws the nonce u, hashes
\* to c and, if c < n, decrypts c
SignPass(nonce) ==
    /\ u' = nonce
    /\ c' = Hash(message, nonce)
    /\ roots' = IF InRange(c', private_key[1] * private_key[2])
                THEN decrypt(c', private_key)
                ELSE <<>>

\* a pass that falls through to the next pass
SignReject(nonce) ==
    /\ SignPass(nonce)
    /\ ~Accepted(c', private_key[1] * private_key[2], roots')
    /\ UNCHANGED <<pc, ret, bit_size, private_key, public_key, message,
                   ciphertext, signature, valid>>

\* a pass that returns (r1, u)
SignAccept(nonce) ==
    /\ SignPass(nonce)
    /\ Accepted(c', private_key[1] * private_key[2], roots')
    /\ signature' = <<roots'[1], nonce>>
    /\ pc' = "idle"
    /\ ret' = "sign"
    /\ UNCHANGED <<bit_size, private_key, public_key, message, ciphertext, valid>>

\* verify(message, (r, u), public_key)
Verify(m, sig, n) ==
    /\ message' = m
    /\ signature' = sig
    /\ public_key' = n
    /\ u' = sig[2]
    /\ c' = Hash(m, sig[2])
    /\ valid' = verify(m, sig, n)
    /\ ret' = "verify"
    /\ UNCHANGED private_key
    /\ bit_size' = 0
    /\ ciphertext' = NoValue
    /\ roots' = <<>>
    /\ pc' = "idle"

\* no call is in progress and none has returned yet
Fresh == pc = "idle" /\ ret = "none"

CallGenerateKeys == Fresh /\ \E bits \in BitSizes : generate_keys(bits)

CallEncrypt == Fresh /\ \E m \in Messages, n \in PublicKeys : Encrypt(m, n)

CallDecrypt == Fresh /\ \E ct \in Messages, key \in KeyArgs : Decrypt(ct, key)

\* the ciphertext that encrypt returned is decrypted with a key of its modulus
DecryptCiphertext ==
    /\ pc = "idle"
    /\ ret = "encrypt"
    /\ \E key \in KeyArgs : key[1] * key[2] = public_key /\ Decrypt(ciphertext, key)

CallSign == Fresh /\ \E m \in SignMessages, key \in KeyArgs : Sign(m, key)

CallVerify ==
    /\ Fresh
    /\ \E m \in SignMessages, r \in Messages, nonce \in Nonces, n \in PublicKeys :
           Verify(m, <<r, nonce>>, n)

\* the signature that sign returned is verified under the modulus of its key
VerifySignature ==
    /\ pc = "idle"
    /\ ret = "sign"
    /\ Verify(message, signature, private_key[1] * private_key[2])

SignLoopReject == pc = "loop" /\ \E nonce \in Nonces : SignReject(nonce)

SignLoopAccept == pc = "loop" /\ \E nonce \in Nonces : SignAccept(nonce)

Next ==
    \/ CallGenerateKeys
    \/ RedrawP
    \/ AcceptP
    \/ RedrawQ
    \/ ReturnKeys
    \/ CallEncrypt
    \/ CallDecrypt
    \/ DecryptCiphertext
    \/ CallSign
    \/ SignLoopReject
    \/ SignLoopAccept
    \/ CallVerify
    \/ VerifySignature

Spec == Init /\ [][Next]_vars

\* The calls that loop: generate_keys and sign
NextLoops ==
    \/ CallGenerateKeys
    \/ RedrawP
    \/ AcceptP
    \/ RedrawQ
    \/ ReturnKeys
    \/ CallSign
    \/ SignLoopReject
    \/ SignLoopAccept

\* A call in progress keeps running, and the random generators are fair: a
\* value that stays possible is eventually drawn, so a loop that some draw
\* ends is eventually ended.
FairSpec ==
    /\ Init
    /\ [][NextLoops]_vars
    /\ WF_vars(NextLoops)
    /\ SF_vars(RedrawP /\ ~PRejected(private_key'[1]))
    /\ SF_vars(RedrawQ /\ ~QRejected(private_key'[1], private_key'[2]))
    /\ SF_vars(SignLoopAccept)

----------------------------------------------------------------------------
(* Properties *)

Range(s) == {s[i] : i \in 1..Len(s)}

\* x is a square modulo p
IsQR(x, p) == \E y \in 0..(p - 1) : (y * y) % p = x % p

\* p and q are distinct primes congruent to 3 mod 4
ValidKey(key) ==
    /\ IsPrime(key[1])
    /\ IsPrime(key[2])
    /\ key[1] # key[2]
    /\ key[1] % 4 = 3
    /\ key[2] % 4 = 3

Modulus == private_key[1] * private_key[2]

\* decrypt has returned for a valid key and a ciphertext below n that is a
\* square modulo p and modulo q
ResidueDecrypted ==
    /\ ret = "decrypt"
    /\ ValidKey(private_key)
    /\ ciphertext < Modulus
    /\ IsQR(ciphertext, private_key[1])
    /\ IsQR(ciphertext, private_key[2])

\* C1: for a valid key and a message m in [0, n), m is one of the four values
\* that decrypt returns for encrypt(m, n), also for m = 0 and for m sharing a
\* factor with n.
C1_RoundTrip ==
    (/\ ret = "decrypt"
     /\ message # NoValue
     /\ ValidKey(private_key)
     /\ public_key = Modulus
     /\ message < public_key)
    => /\ ciphertext = (message * message) % public_key
       /\ message \in Range(roots)

C1_Witness ==
    /\ ret = "decrypt"
    /\ ValidKey(private_key)
    /\ public_key = Modulus
    /\ message > 0
    /\ message < public_key
    /\ message % private_key[1] = 0
    /\ message \in Range(roots)

\* C2: the pair (r, nonce) that sign returns for a message verifies under
\* n = p * q, whatever was drawn and rejected before.
C2_SignThenVerify ==
    (ret = "verify" /\ private_key # NoKey) => valid

C2_Witness ==
    /\ ret = "verify"
    /\ ValidKey(private_key)
    /\ valid
    /\ signature[1] > 1

\* C3: for a valid key and a ciphertext in [0, n) that is a square modulo p and
\* q, each of the four values returned lies in [0, n) and squares to the
\* ciphertext modulo n; decrypt(16, (7, 11)) has 4 and 73 among them.
C3_RootsSquareToCiphertext ==
    ResidueDecrypted
    => /\ Len(roots) = 4
       /\ \A i \in 1..4 :
             /\ roots[i] \in 0..(Modulus - 1)
             /\ (roots[i] * roots[i]) % Modulus = ciphertext
       /\ (private_key = <<7, 11>> /\ ciphertext = 16) => {4, 73} \subseteq Range(roots)

C3_Witness ==
    /\ ResidueDecrypted
    /\ private_key = <<7, 11>>
    /\ ciphertext = 16
    /\ 4 \in Range(roots)

\* C4 as claimed: for a valid key and a residue ciphertext in [1, n), the four
\* values returned are pairwise distinct, also when p or q divides the
\* ciphertext.
C4_Original ==
    (ResidueDecrypted /\ ciphertext # 0) => Cardinality(Range(roots)) = 4

\* C4 as amended: for a valid key and a residue ciphertext in [1, n), the four
\* values returned are pairwise distinct when neither p nor q divides the
\* ciphertext, and are two distinct values (r3 = r1 or r3 = r2) when p or q
\* divides it.
C4_DistinctWhenCoprime ==
    (ResidueDecrypted /\ ciphertext # 0)
    => IF ciphertext % private_key[1] # 0 /\ ciphertext % private_key[2] # 0
       THEN Cardinality(Range(roots)) = 4
       ELSE /\ Cardinality(Range(roots)) = 2
            /\ roots[3] \in {roots[1], roots[2]}

C4_Witness ==
    /\ ResidueDecrypted
    /\ ciphertext # 0
    /\ ciphertext % private_key[1] # 0
    /\ ciphertext % private_key[2] # 0
    /\ Cardinality(Range(roots)) = 4

\* C5 as claimed: for every ciphertext and key the returned vector has
\* r2 = n - r1 and r4 = n - r3 as integers, also when r1 = 0 or r3 = 0.
C5_Original ==
    ret = "decrypt"
    => /\ roots[2] = Modulus - roots[1]
       /\ roots[4] = Modulus - roots[3]

\* C5 as amended: for every ciphertext and key the returned vector has
\* r2 = (n - r1) mod n and r4 = (n - r3) mod n: r2 = n - r1 when r1 # 0 and
\* r2 = 0 when r1 = 0, and likewise for r4 and r3.
C5_PairingModN ==
    ret = "decrypt"
    => /\ Len(roots) = 4
       /\ \A i \in {1, 3} :
             /\ roots[i] \in 0..(Modulus - 1)
             /\ roots[i] # 0 => roots[i + 1] = Modulus - roots[i]
             /\ roots[i] = 0 => roots[i + 1] = 0

C5_Witness ==
    /\ ret = "decrypt"
    /\ ValidKey(private_key)
    /\ ciphertext = 0
    /\ roots[1] = 0
    /\ roots[2] = 0

\* C6: every call of sign ends, with a signature or with an error value.
C6_SignTerminates == (pc = "loop" /\ ValidKey(private_key)) ~> (pc = "idle")

\* C7: the keys that generate_keys returns have p mod 4 = 3, q mod 4 = 3,
\* p # q and n = p * q, whatever primes were drawn.
C7_GeneratedKeyValid ==
    ret = "generate_keys"
    => /\ private_key[1] % 4 = 3
       /\ private_key[2] % 4 = 3
       /\ private_key[1] # private_key[2]
       /\ public_key = private_key[1] * private_key[2]
       /\ private_key[1] \in Primes(bit_size)
       /\ private_key[2] \in Primes(bit_size)

C7_Witness ==
    /\ ret = "generate_keys"
    /\ private_key = <<7, 11>>
    /\ public_key = 77

\* C8: every call of generate_keys ends, with a key pair or with an error, for
\* every bit_size.
C8_GenerateKeysTerminates == (pc \in {"while_p", "while_q"}) ~> (pc = "idle")

\* C9 as claimed: verify returns true iff r * r mod n equals the hash value
\* reduced modulo n.
C9_Original ==
    ret = "verify"
    => (valid <=> (signature[1] * signature[1]) % public_key
                    = Hash(message, signature[2]) % public_key)

\* C9 as amended: verify returns true iff r * r mod n equals the hash value
\* itself, that is iff the hash value is below n and r * r mod n equals it; for
\* a hash value >= n verify returns false.
C9_VerifyUnreduced ==
    ret = "verify"
    => (valid <=> /\ Hash(message, signature[2]) < public_key
                  /\ (signature[1] * signature[1]) % public_key
                       = Hash(message, signature[2]) % public_key)

C9_Witness ==
    /\ ret = "verify"
    /\ Hash(message, signature[2]) >= public_key
    /\ (signature[1] * signature[1]) % public_key
         = Hash(message, signature[2]) % public_key
    /\ ~valid

\* C10: with a valid key, sign accepts an attempt with hash value c iff c < n
\* and c is a square modulo p and q (the first root that decrypt lists squares
\* to c exactly for these c); the r returned is the first root, is below n and
\* squares to c modulo n, c being the hash of the returned nonce.
C10_AcceptIffResidueBelowN ==
    ValidKey(private_key)
    => /\ ret = "sign"
          => /\ c = Hash(message, signature[2])
             /\ c < Modulus
             /\ IsQR(c, private_key[1])
             /\ IsQR(c, private_key[2])
             /\ signature[1] = roots[1]
             /\ signature[1] < Modulus
             /\ (signature[1] * signature[1]) % Modulus = c
       /\ (pc = "loop" /\ u # NoValue)
          => /\ c = Hash(message, u)
             /\ ~(/\ c < Modulus
                  /\ IsQR(c, private_key[1])
                  /\ IsQR(c, private_key[2]))
       /\ (ret = "decrypt" /\ ciphertext < Modulus)
          => (encrypt(roots[1], Modulus) = ciphertext
                <=> /\ IsQR(ciphertext, private_key[1])
                    /\ IsQR(ciphertext, private_key[2]))

C10_Witness ==
    /\ ret = "sign"
    /\ ValidKey(private_key)
    /\ c > 1
    /\ c < Modulus
    /\ signature[1] = roots[1]

====
